---------------------------- MODULE Spec2Model ----------------------------
(***************************************************************************)
(* A model of the EverMemOS MCP adapter: the HTTP client                   *)
(* (evermemos_client.py) and the four tools and two result formatters of   *)
(* the tool surface (server.py).                                           *)
(*                                                                         *)
(* Python strings the program takes apart or builds (URLs, identifiers,    *)
(* keys) are sequences of tokens: "" is << >>, "http://h/" is              *)
(* <<"http://h", "/">>, f"{sender}_group" is sender \o <<"_group">>.       *)
(* A token never ends in "/" unless it is "/" itself.  None is a reserved  *)
(* token sequence.  Decoded JSON is a tagged value (JNull, JNum, JStr,     *)
(* JList, JDict); a JSON dict keeps its items in insertion order.          *)
(* A computation that may raise yields Ok(v) or Raise(e).                  *)
(***************************************************************************)
EXTENDS Integers, Sequences, FiniteSets, TLC

VARIABLES
    env,        \* os.environ, the variables the program reads
    ctor,       \* the arguments EverMemOSClient was constructed with
    client,     \* the EverMemOSClient instance (its attributes)
    defaults,   \* server.py's DEFAULT_USER_ID and DEFAULT_GROUP_ID
    pc,         \* where the current invocation stands
    call,       \* the current invocation: its name and arguments
    sent,       \* the HTTP requests the invocation has issued, in order
    got,        \* the outcome of each completed request, in order
    ret         \* how the invocation ended: a returned value or a raised error

vars == <<env, ctor, client, defaults, pc, call, sent, got, ret>>

(***************************************************************************)
(* Python values                                                           *)
(***************************************************************************)
None == <<"<None>">>

Truthy(s) == s /= None /\ s /= << >>

\* Python's `a or b` on strings and None
Or(a, b) == IF Truthy(a) THEN a ELSE b

Ok(v) == [ok |-> TRUE, val |-> v]
Raise(e) == [ok |-> FALSE, exc |-> e]

Min(a, b) == IF a <= b THEN a ELSE b

RECURSIVE rstrip(_, _)
rstrip(s, ch) ==
    IF s /= << >> /\ s[Len(s)] = ch
    THEN rstrip(SubSeq(s, 1, Len(s) - 1), ch)
    ELSE s

\* os.getenv(name): None when the variable is not set
getenv(e, name) == e[name]

\* os.getenv(name, default)
getenv_default(e, name, default) == IF e[name] = None THEN default ELSE e[name]

(***************************************************************************)
(* evermemos_client.py                                                     *)
(***************************************************************************)
DEFAULT_CLOUD_URL == <<"https://api.evermind.ai">>
DEFAULT_LOCAL_URL == <<"http://localhost:1995">>
DEFAULT_API_VERSION == <<"v1">>

\* The base-URL branch of __init__ with the explicit argument and the
\* environment variable tried in the other order.
resolve_base_url_env_first(base_url, e, api_key) ==
    IF Truthy(getenv(e, "EVERMEM_API_URL")) THEN rstrip(getenv(e, "EVERMEM_API_URL"), "/")
    ELSE IF Truthy(base_url) THEN rstrip(base_url, "/")
    ELSE IF Truthy(api_key) THEN DEFAULT_CLOUD_URL
    ELSE DEFAULT_LOCAL_URL

resolve_base_url(base_url, e, api_key) ==
    IF Truthy(base_url) THEN rstrip(base_url, "/")
    ELSE IF Truthy(getenv(e, "EVERMEM_API_URL")) THEN rstrip(getenv(e, "EVERMEM_API_URL"), "/")
    ELSE IF Truthy(api_key) THEN DEFAULT_CLOUD_URL
    ELSE DEFAULT_LOCAL_URL

EverMemOSClient(args, e) ==
    LET api_key == Or(args.api_key, getenv_default(e, "EVERMEM_API_KEY", << >>))
        api_version == Or(args.api_version,
                          getenv_default(e, "EVERMEM_API_VERSION", DEFAULT_API_VERSION))
        base_url == resolve_base_url(args.base_url, e, api_key)
    IN  [api_key |-> api_key,
         api_version |-> api_version,
         base_url |-> base_url,
         memories_url |-> base_url \o <<"/api", "/">> \o api_version \o <<"/memories">>]

_headers(c) ==
    IF Truthy(c.api_key)
    THEN [Content_Type |-> "application/json", Authorization |-> <<"Bearer ">> \o c.api_key]
    ELSE [Content_Type |-> "application/json"]


\* Decoded JSON.  A number is kept in hundredths (0.87 is JNum(87)); the items
\* of a dict are <<key, value>> pairs; NotJson is a body json() cannot decode.
JNull == [t |-> "null"]
JNum(n) == [t |-> "num", n |-> n]
JStr(s) == [t |-> "str", s |-> s]
JList(l) == [t |-> "list", l |-> l]
JDict(d) == [t |-> "dict", d |-> d]
NotJson == [t |-> "invalid"]

\* What the remote service answers to one request: an HTTP response, or none
\* (connection refused, timeout).
Response(status, body) == [kind |-> "response", status |-> status, body |-> body]
TransportError(exc) == [kind |-> "error", exc |-> exc]

\* The client's read timeout (timeout=self.timeout) expiring on a request the
\* remote service has already carried out: the client sees a ReadTimeout like
\* any other.
ReadTimeoutAfterProcessing == [kind |-> "error", exc |-> "ReadTimeout", processed |-> TRUE]

\* httpx.Response.is_success
is_success(status) == 200 <= status /\ status <= 299

\* `resp = await client.<method>(...)`, `resp.raise_for_status()`,
\* `return resp.json()`, with raise_for_status accepting every status.
receive_unchecked(req, o) ==
    IF o.kind = "error" THEN Raise([type |-> o.exc, url |-> req.url])
    ELSE IF o.body = NotJson THEN Raise([type |-> "JSONDecodeError"])
    ELSE Ok(o.body)

\* `resp = await client.<method>(...)`, `resp.raise_for_status()`,
\* `return resp.json()`: what the client operation yields for outcome o.
receive(req, o) ==
    IF o.kind = "error" THEN Raise([type |-> o.exc, url |-> req.url])
    ELSE IF ~is_success(o.status)
         THEN Raise([type |-> "HTTPStatusError", status |-> o.status, url |-> req.url])
    ELSE IF o.body = NotJson THEN Raise([type |-> "JSONDecodeError"])
    ELSE Ok(o.body)

\* The requests still to send once request req has ended with outcome o,
\* for a client that sends a failed request once more.
resend_on_failure(req, o) ==
    IF o.kind = "error" \/ ~is_success(o.status) THEN <<req>> ELSE << >>

\* The requests still to send once request req has ended with outcome o:
\* none, the `async with` block is left by return or by the raised error.
resend(req, o) == << >>

Optional(cond, field) == IF cond THEN field ELSE << >>

save_conversation_meta(c, group_id, scene, group_name, user_details) ==
    LET meta_url == c.base_url \o <<"/api", "/">> \o c.api_version
                        \o <<"/memories", "/conversation-meta">>
        details == IF user_details = None
                   THEN [User |-> [full_name |-> <<"User">>, role |-> <<"user">>],
                         Assistant |-> [full_name |-> <<"AI Assistant">>,
                                        role |-> <<"assistant">>]]
                   ELSE user_details
        payload == [version |-> <<"1.0.0">>,
                    scene |-> scene,
                    name |-> group_name,
                    description |-> <<"MCP Memory - ">> \o scene \o <<" scene">>,
                    group_id |-> group_id,
                    created_at |-> <<"<now>">>,
                    default_timezone |-> <<"UTC">>,
                    user_details |-> details,
                    tags |-> <<<<"mcp">>, scene>>]
    IN  [op |-> "save_conversation_meta", method |-> "POST", url |-> meta_url,
         json |-> payload, headers |-> _headers(c)]

\* add_memory without its `if not group_id:` default
add_memory_group_as_given(c, content, sender, group_id, sender_name, role, scene, message_id, flush) ==
    LET payload == [message_id |-> Or(message_id, <<"msg_", "<uuid12>">>),
                    create_time |-> <<"<now>">>,
                    sender |-> sender,
                    sender_name |-> Or(sender_name, sender),
                    group_id |-> group_id,
                    content |-> content,
                    role |-> role,
                    type |-> <<"text">>,
                    scene |-> scene]
                   @@ Optional(flush, [flush |-> TRUE])
    IN  [op |-> "add_memory", method |-> "POST", url |-> c.memories_url,
         json |-> payload, headers |-> _headers(c)]

add_memory(c, content, sender, group_id, sender_name, role, scene, message_id, flush) ==
    LET gid == IF ~Truthy(group_id) THEN sender \o <<"_group">> ELSE group_id
        payload == [message_id |-> Or(message_id, <<"msg_", "<uuid12>">>),
                    create_time |-> <<"<now>">>,
                    sender |-> sender,
                    sender_name |-> Or(sender_name, sender),
                    group_id |-> gid,
                    content |-> content,
                    role |-> role,
                    type |-> <<"text">>,
                    scene |-> scene]
                   @@ Optional(flush, [flush |-> TRUE])
    IN  [op |-> "add_memory", method |-> "POST", url |-> c.memories_url,
         json |-> payload, headers |-> _headers(c)]

\* search_memories choosing its transport by the resolved base URL (cloud or
\* not) in place of the API key
search_memories_by_url(c, query, user_id, group_id, retrieve_method, memory_types, top_k) ==
    LET params == [user_id |-> user_id,
                   query |-> query,
                   retrieve_method |-> retrieve_method,
                   top_k |-> top_k]
                  @@ Optional(Truthy(group_id), [group_id |-> group_id])
                  @@ Optional(Truthy(memory_types), [memory_types |-> memory_types])
    IN  IF c.base_url = DEFAULT_CLOUD_URL
        THEN [op |-> "search_memories", method |-> "POST",
              url |-> c.memories_url \o <<"/search">>,
              json |-> params, headers |-> _headers(c)]
        ELSE [op |-> "search_memories", method |-> "GET",
              url |-> c.memories_url \o <<"/search">>,
              params |-> params, headers |-> _headers(c)]

search_memories(c, query, user_id, group_id, retrieve_method, memory_types, top_k) ==
    LET params == [user_id |-> user_id,
                   query |-> query,
                   retrieve_method |-> retrieve_method,
                   top_k |-> top_k]
                  @@ Optional(Truthy(group_id), [group_id |-> group_id])
                  @@ Optional(Truthy(memory_types), [memory_types |-> memory_types])
    IN  IF Truthy(c.api_key)
        THEN [op |-> "search_memories", method |-> "POST",
              url |-> c.memories_url \o <<"/search">>,
              json |-> params, headers |-> _headers(c)]
        ELSE [op |-> "search_memories", method |-> "GET",
              url |-> c.memories_url \o <<"/search">>,
              params |-> params, headers |-> _headers(c)]

get_memories(c, user_id, memory_type, group_id, limit) ==
    LET params == [user_id |-> user_id,
                   memory_type |-> memory_type,
                   limit |-> limit]
                  @@ Optional(Truthy(group_id), [group_id |-> group_id])
    IN  [op |-> "get_memories", method |-> "GET", url |-> c.memories_url,
         params |-> params, headers |-> _headers(c)]

delete_memories(c, user_id, group_id, memory_type) ==
    LET payload == [user_id |-> user_id]
                   @@ Optional(Truthy(group_id), [group_id |-> group_id])
                   @@ Optional(Truthy(memory_type), [memory_type |-> memory_type])
    IN  [op |-> "delete_memories", method |-> "DELETE", url |-> c.memories_url,
         json |-> payload, headers |-> _headers(c)]

(***************************************************************************)
(* server.py: the result formatters                                        *)
(***************************************************************************)
JTypes == {"null", "num", "str", "list", "dict"}

\* bool(v)
py_truthy(v) ==
    CASE v.t = "null" -> FALSE
      [] v.t = "num" -> v.n /= 0
      [] v.t = "str" -> v.s /= ""
      [] v.t = "list" -> v.l /= << >>
      [] v.t = "dict" -> v.d /= << >>

\* `a or b`
py_or(a, b) == IF py_truthy(a) THEN a ELSE b

dict_has(v, key) == \E i \in 1..Len(v.d) : v.d[i][1] = key
dict_val(v, key) == v.d[CHOOSE i \in 1..Len(v.d) : v.d[i][1] = key][2]

\* v.get(key, default): only a dict has .get
py_get(v, key, default) ==
    IF v.t = "dict"
    THEN Ok(IF dict_has(v, key) THEN dict_val(v, key) ELSE default)
    ELSE Raise([type |-> "AttributeError", what |-> "get"])

\* len(v)
py_len(v) ==
    CASE v.t = "list" -> Ok(Len(v.l))
      [] v.t = "dict" -> Ok(Len(v.d))
      [] v.t = "str" -> Ok(Len(v.s))
      [] v.t \in {"null", "num"} -> Raise([type |-> "TypeError", what |-> "len"])

\* v[i] for an int i with 0 <= i < len(v); the keys of a JSON dict are strings
py_index(v, i) ==
    CASE v.t = "list" -> Ok(v.l[i + 1])
      [] v.t = "dict" -> Raise([type |-> "KeyError", what |-> "index"])

\* iter(v): the elements of a list, the keys of a dict
py_iter(v) ==
    CASE v.t = "list" -> Ok(v.l)
      [] v.t = "dict" -> Ok([i \in 1..Len(v.d) |-> JStr(v.d[i][1])])
      [] v.t \in {"null", "num"} -> Raise([type |-> "TypeError", what |-> "iter"])

\* `v[i] if i < len(v) and isinstance(v[i], types) else default`
index_or_default(v, i, types, default) ==
    LET n == py_len(v)
    IN  IF ~n.ok THEN n
        ELSE IF i < n.val
        THEN LET x == py_index(v, i)
             IN  IF ~x.ok THEN x
                 ELSE IF x.val.t \in types THEN x ELSE Ok(default)
        ELSE Ok(default)

\* f"[relevance: {score:.2f}]"
format_relevance(score) ==
    CASE score.t = "num" -> Ok([tag |-> "relevance", v |-> score])
      [] score.t = "str" -> Raise([type |-> "ValueError", what |-> "format"])
      [] score.t \in {"null", "list", "dict"} ->
            Raise([type |-> "TypeError", what |-> "format"])

_format_single_memory(mem, score) ==
    LET attr(k) == IF mem.t = "dict" THEN py_get(mem, k, JStr("")).val ELSE JStr("")
        mem_type == attr("memory_type")
        summary == attr("summary")
        timestamp == attr("timestamp")
        episode == attr("episode")
        rel == IF py_truthy(score) THEN format_relevance(score) ELSE Ok(JNull)
        parts == (IF py_truthy(score) THEN <<rel.val>> ELSE << >>)
                 \o (IF py_truthy(timestamp)
                     THEN <<[tag |-> "timestamp", v |-> timestamp]>> ELSE << >>)
                 \o (IF py_truthy(mem_type)
                     THEN <<[tag |-> "memory_type", v |-> mem_type]>> ELSE << >>)
        content == py_or(episode, py_or(summary, JStr("(no content)")))
    IN  IF ~rel.ok THEN rel
        ELSE Ok([kind |-> "memory", header |-> parts, content |-> content])

\* `for j, m in enumerate(...)` of the grouped branch, from index j on
RECURSIVE search_group_records(_, _, _, _)
search_group_records(recs, score_list, j, lines) ==
    IF j >= Len(recs) THEN Ok(lines)
    ELSE LET s == index_or_default(score_list, j, JTypes, JNum(0))
             line == _format_single_memory(recs[j + 1], s.val)
         IN  IF ~s.ok THEN s
             ELSE IF ~line.ok THEN line
             ELSE search_group_records(recs, score_list, j + 1, Append(lines, line.val))

\* `for group_id, mem_list in mem.items()` of the search formatter, from
\* item k on
RECURSIVE search_groups(_, _, _, _, _)
search_groups(items, scores, i, k, lines) ==
    IF k > Len(items) THEN Ok(lines)
    ELSE LET group_id == items[k][1]
             mem_list == items[k][2]
             score_dict == index_or_default(scores, i, {"dict"}, JDict(<< >>))
             score_list == py_get(score_dict.val, group_id, JList(<< >>)).val
             recs == IF mem_list.t = "list" THEN mem_list.l ELSE <<mem_list>>
             inner == search_group_records(recs, score_list, 0,
                          Append(lines, [kind |-> "group", group_id |-> group_id]))
         IN  IF ~score_dict.ok THEN score_dict
             ELSE IF ~inner.ok THEN inner
             ELSE search_groups(items, scores, i, k + 1, inner.val)

\* `any(isinstance(v, list) for v in mem.values())`
any_list_value(mem) == \E k \in 1..Len(mem.d) : mem.d[k][2].t = "list"

\* `for i, mem in enumerate(memories)` of the search formatter, from index i on
RECURSIVE search_entries(_, _, _, _)
search_entries(mems, scores, i, lines) ==
    IF i >= Len(mems) THEN Ok(lines)
    ELSE LET mem == mems[i + 1]
         IN  IF mem.t = "dict" /\ any_list_value(mem)
             THEN LET g == search_groups(mem.d, scores, i, 1, lines)
                  IN  IF ~g.ok THEN g ELSE search_entries(mems, scores, i + 1, g.val)
             ELSE LET s == index_or_default(scores, i, {"num"}, JNum(0))
                      line == _format_single_memory(mem, s.val)
                  IN  IF ~s.ok THEN s
                      ELSE IF ~line.ok THEN line
                      ELSE search_entries(mems, scores, i + 1, Append(lines, line.val))

_format_search_results(data) ==
    LET r == py_get(data, "result", data)
        result == r.val
        m == py_get(result, "memories", JList(<< >>))
        memories == m.val
        scores == py_get(result, "scores", JList(<< >>)).val
        total == py_get(result, "total_count", JNum(0)).val
        it == py_iter(memories)
        body == search_entries(it.val, scores, 0, << >>)
    IN  IF ~r.ok THEN r
        ELSE IF ~m.ok THEN m
        ELSE IF ~py_truthy(memories) THEN Ok([head |-> "No relevant memories found."])
        ELSE IF ~it.ok THEN it
        ELSE IF ~body.ok THEN body
        ELSE Ok([head |-> "Found {total} relevant memories:", total |-> total,
                 lines |-> body.val])

\* `for m in (mem_list if isinstance(mem_list, list) else [mem_list])`
get_group_records(recs, lines) ==
    lines \o [j \in 1..Len(recs) |-> _format_single_memory(recs[j], JNum(0)).val]

\* `for group_id, mem_list in mem.items()` of the get formatter, from item k on
RECURSIVE get_groups(_, _, _)
get_groups(items, k, lines) ==
    IF k > Len(items) THEN lines
    ELSE LET group_id == items[k][1]
             mem_list == items[k][2]
             recs == IF mem_list.t = "list" THEN mem_list.l ELSE <<mem_list>>
         IN  get_groups(items, k + 1,
                 get_group_records(recs,
                     Append(lines, [kind |-> "group", group_id |-> group_id])))

\* `for mem in memories` of the get formatter, from index i on
RECURSIVE get_entries(_, _, _)
get_entries(mems, i, lines) ==
    IF i >= Len(mems) THEN lines
    ELSE LET mem == mems[i + 1]
         IN  IF mem.t = "dict"
             THEN get_entries(mems, i + 1, get_groups(mem.d, 1, lines))
             ELSE get_entries(mems, i + 1,
                      Append(lines, _format_single_memory(mem, JNum(0)).val))

_format_get_results(data) ==
    LET r == py_get(data, "result", data)
        result == r.val
        m == py_get(result, "memories", JList(<< >>))
        memories == m.val
        n == py_len(memories)
        it == py_iter(memories)
    IN  IF ~r.ok THEN r
        ELSE IF ~m.ok THEN m
        ELSE IF ~py_truthy(memories) THEN Ok([head |-> "No memories found for this user."])
        ELSE IF ~n.ok THEN n
        ELSE IF ~it.ok THEN it
        ELSE Ok([head |-> "Retrieved {len(memories)} memories:", count |-> n.val,
                 lines |-> get_entries(it.val, 0, << >>)])

(***************************************************************************)
(* server.py: the tools                                                    *)
(***************************************************************************)
DEFAULT_USER_ID(e) == getenv_default(e, "EVERMEM_USER_ID", <<"windsurf_user">>)
DEFAULT_GROUP_ID(e) == getenv_default(e, "EVERMEM_GROUP_ID", <<"windsurf_project">>)

MAX_TOP_K == 20
MAX_LIMIT == 50

NoReturn == [kind |-> "none"]
Returned(v) == [kind |-> "return", val |-> v]
Raised(e) == [kind |-> "raise", exc |-> e]

HTTPErrors == {"HTTPStatusError", "ConnectError", "ReadTimeout"}

\* `except httpx.HTTPError as e:` in place of `except Exception as e:`
except_HTTPError(prefix, r) ==
    IF r.ok THEN Returned(r.val)
    ELSE IF r.exc.type \in HTTPErrors THEN Returned([head |-> prefix, detail |-> r.exc])
    ELSE Raised(r.exc)

\* `try: <r> ... except Exception as e: return f"<prefix>{str(e)}"`: how the
\* tool ends when the body of its try yields r
except_Exception(prefix, r) ==
    IF r.ok THEN Returned(r.val) ELSE Returned([head |-> prefix, detail |-> r.exc])

\* The inner try of store_memory without its `except Exception: pass`
meta_failure_propagates(r) == IF r.ok THEN Ok(JNull) ELSE r

\* `try: await client.save_conversation_meta(...) except Exception: pass`
\* when save_conversation_meta yields r
meta_failure_ignored(r) == Ok(JNull)

\* top_k=top_k
top_k_forwarded_as_given(top_k) == top_k

\* top_k=min(top_k, 20)
clamp_top_k(top_k) == Min(top_k, MAX_TOP_K)

\* limit=min(limit, 50)
clamp_limit(limit) == Min(limit, MAX_LIMIT)

\* store_memory's text with `result["status"]` in place of
\* `result.get("status", "unknown")`
store_memory_text_status_required(result) ==
    LET status == IF result.t /= "dict"
                  THEN Raise([type |-> "TypeError", what |-> "subscript"])
                  ELSE IF ~dict_has(result, "status")
                       THEN Raise([type |-> "KeyError", key |-> "status"])
                  ELSE Ok(dict_val(result, "status"))
        message == py_get(result, "message", JStr(""))
        request_id == py_get(result, "request_id", JStr(""))
    IN  IF ~status.ok THEN status
        ELSE Ok([head |-> "Memory stored successfully.", status |-> status.val,
                 message |-> message.val, request_id |-> request_id.val])

\* The text store_memory builds from add_memory's result
store_memory_text(result) ==
    LET status == py_get(result, "status", JStr("unknown"))
        message == py_get(result, "message", JStr(""))
        request_id == py_get(result, "request_id", JStr(""))
    IN  IF ~status.ok THEN status
        ELSE Ok([head |-> "Memory stored successfully.", status |-> status.val,
                 message |-> message.val, request_id |-> request_id.val])

\* The text delete_memory builds from delete_memories' result
delete_memory_text(result) ==
    LET status == py_get(result, "status", JStr("unknown"))
        message == py_get(result, "message", JStr(""))
    IN  IF ~status.ok THEN status
        ELSE Ok([head |-> "Delete completed.", status |-> status.val,
                 message |-> message.val])

\* The body of each tool's try once its client operation has yielded r: the
\* operation's error, or the text made of its result (or the error making it)
store_memory_try(r) == IF r.ok THEN store_memory_text(r.val) ELSE r
search_memory_try(r) == IF r.ok THEN _format_search_results(r.val) ELSE r
get_memories_try(r) == IF r.ok THEN _format_get_results(r.val) ELSE r
delete_memory_try(r) == IF r.ok THEN delete_memory_text(r.val) ELSE r

LastSent == sent[Len(sent)]

(***************************************************************************)
(* The values the model draws its inputs from                              *)
(***************************************************************************)
MaxBelow == 2   \* top_k and limit are drawn from 1 - MaxBelow up
MaxAbove == 2   \* ... to the cap + MaxAbove
MaxMems == 2    \* the longest `memories` list a formatter is given

TopKInputs == (1 - MaxBelow)..(MAX_TOP_K + MaxAbove)
LimitInputs == (1 - MaxBelow)..(MAX_LIMIT + MaxAbove)

Pair(k, v) == <<k, v>>

Rec1 == JDict(<<Pair("memory_type", JStr("episodic_memory")),
                Pair("summary", JStr("likes Python")),
                Pair("timestamp", JStr("2024-01-01T00:00:00Z"))>>)
Rec2 == JDict(<<Pair("episode", JStr("deployed via Docker"))>>)
Rec3 == JDict(<<Pair("summary", JStr("uses FastAPI")),
                Pair("keywords", JList(<<JStr("api"), JStr("web")>>))>>)
Grp1 == JDict(<<Pair("proj1", JList(<<Rec2>>))>>)
Grp2 == JDict(<<Pair("proj1", JList(<<Rec1, Rec2>>)), Pair("proj2", JList(<<Rec2>>))>>)

MemEntries == {Rec1, Rec2, Rec3, Grp1, Grp2}

ScoreOk == JDict(<<Pair("proj1", JList(<<JNum(91), JNum(42)>>)),
                   Pair("proj2", JList(<<JNum(50)>>))>>)
ScoreNotList == JDict(<<Pair("proj1", JNum(90))>>)
ScoreNotNum == JDict(<<Pair("proj1", JList(<<JStr("high")>>))>>)

ScoreEntries == {JNum(87), JStr("high"), ScoreOk, ScoreNotList, ScoreNotNum}

SeqsUpTo(S, n) == UNION {[1..k -> S] : k \in 0..n}

Missing == [t |-> "missing"]

\* A response body {"result": {"memories": ..., "scores": ..., "total_count": ...}};
\* a key given as Missing is left out
Body(memories, scores, total) ==
    LET item(k, v) == IF v = Missing THEN << >> ELSE <<Pair(k, v)>>
    IN  JDict(<<Pair("result", JDict(item("memories", memories) \o item("scores", scores)
                                       \o item("total_count", total)))>>)

ScoresFor(n) == {Missing, JNull, ScoreOk} \cup {JList(l) : l \in SeqsUpTo(ScoreEntries, n)}

OddBodies ==
    {JList(<< >>), JDict(<<Pair("result", JNull)>>), JDict(<< >>),
     JDict(<<Pair("memories", JList(<<Rec1>>)), Pair("scores", JList(<<JNum(87)>>)),
             Pair("total_count", JNum(1))>>),
     Body(JNum(3), Missing, Missing), Body(JNull, Missing, Missing),
     Body(Grp1, JList(<<ScoreOk>>), JNum(1))}

\* The bodies the tools are answered with: every way a formatter ends
ToolBodies ==
    {Body(JList(<< >>), JList(<< >>), JNum(0)),
     Body(JList(<<Rec1>>), JList(<<JNum(87)>>), JNum(1)),
     Body(JList(<<Grp1>>), JList(<<ScoreOk>>), JNum(1)),
     Body(JList(<<Grp1>>), JList(<<ScoreNotList>>), JNum(1)),
     Body(JList(<<Grp1>>), JList(<<ScoreNotNum>>), JNum(1)),
     Body(JNum(3), Missing, Missing),
     JDict(<<Pair("result", JNull)>>),
     JList(<< >>)}

StoreBodies ==
    {JDict(<<Pair("status", JStr("ok")), Pair("message", JStr("queued")),
             Pair("request_id", JStr("req-1"))>>),
     JDict(<< >>),
     JList(<< >>),
     JNull}

ErrorBody == JDict(<<Pair("detail", JStr("error"))>>)

ErrorStatuses == {302, 404, 409, 500}
SuccessStatuses == {200, 201}

Outcomes(bodies) ==
    {TransportError(x) : x \in {"ConnectError", "ReadTimeout"}}
    \cup {ReadTimeoutAfterProcessing}
    \cup {Response(st, ErrorBody) : st \in ErrorStatuses}
    \cup {Response(st, b) : st \in SuccessStatuses, b \in bodies \cup {NotJson}}

MetaOutcomes ==
    {TransportError("ReadTimeout"), Response(409, ErrorBody), Response(500, ErrorBody),
     Response(200, JDict(<<Pair("status", JStr("ok"))>>)), Response(200, NotJson)}

Users == {None, <<"alice">>}
Groups == {None, << >>, <<"proj">>}

NoArgs == [api_key |-> None, base_url |-> None, api_version |-> None]

Environment(key, url, user, group) ==
    [EVERMEM_API_KEY |-> key, EVERMEM_API_URL |-> url, EVERMEM_API_VERSION |-> None,
     EVERMEM_USER_ID |-> user, EVERMEM_GROUP_ID |-> group]

(***************************************************************************)
(* The server process: the module-level client and defaults, then one tool *)
(* call at a time.  A tool call is suspended at each `await` of a request. *)
(***************************************************************************)
Start(e, args) ==
    /\ env = e
    /\ ctor = args
    /\ client = EverMemOSClient(args, e)
    /\ defaults = [user_id |-> DEFAULT_USER_ID(e), group_id |-> DEFAULT_GROUP_ID(e)]
    /\ pc = "idle"
    /\ sent = << >>
    /\ got = << >>
    /\ ret = NoReturn

Init ==
    /\ \E key \in {None, <<"sk-1">>}, user \in {None, <<"bob">>},
          group \in {None, << >>, <<"team">>} :
           Start(Environment(key, None, user, group), NoArgs)
    /\ call = [tool |-> "none"]

Config == <<env, ctor, client, defaults>>

StoreMemory ==
    /\ pc = "idle"
    /\ \E sender \in Users, group_id \in Groups, flush \in BOOLEAN :
        LET user_id == Or(sender, defaults.user_id)
            gid == Or(group_id, defaults.group_id)
        IN  /\ call' = [tool |-> "store_memory", content |-> <<"likes Python">>,
                        role |-> <<"user">>, sender |-> sender, group_id |-> group_id,
                        flush |-> flush, user_id |-> user_id, gid |-> gid]
            /\ sent' = <<save_conversation_meta(client, gid, <<"assistant">>,
                                                <<"MCP Memory Group">>, None)>>
    /\ pc' = "store_memory:meta"
    /\ UNCHANGED <<Config, got, ret>>

StoreMemoryMeta ==
    /\ pc = "store_memory:meta"
    /\ \E o \in MetaOutcomes :
        LET m == meta_failure_ignored(receive(LastSent, o))
        IN  /\ got' = Append(got, o)
            /\ IF m.ok
               THEN /\ sent' = sent \o resend(LastSent, o)
                               \o <<add_memory(client, call.content, call.user_id,
                                               call.gid, call.user_id, call.role,
                                               <<"assistant">>, None, call.flush)>>
                    /\ pc' = "store_memory:add"
                    /\ ret' = ret
               ELSE /\ sent' = sent \o resend(LastSent, o)
                    /\ pc' = "done"
                    /\ ret' = except_Exception("Failed to store memory: ", m)
    /\ UNCHANGED <<Config, call>>

StoreMemoryAdd ==
    /\ pc = "store_memory:add"
    /\ \E o \in Outcomes(StoreBodies) :
        /\ got' = Append(got, o)
        /\ sent' = sent \o resend(LastSent, o)
        /\ ret' = except_Exception("Failed to store memory: ",
                                   store_memory_try(receive(LastSent, o)))
    /\ pc' = "done"
    /\ UNCHANGED <<Config, call>>

SearchMemory ==
    /\ pc = "idle"
    /\ \E user_id \in Users, group_id \in {None, <<"proj">>}, top_k \in TopKInputs :
        LET uid == Or(user_id, defaults.user_id)
        IN  /\ call' = [tool |-> "search_memory", query |-> <<"python">>,
                        user_id |-> user_id, group_id |-> group_id,
                        retrieve_method |-> <<"keyword">>, top_k |-> top_k]
            /\ sent' = <<search_memories(client, <<"python">>, uid, group_id,
                                         <<"keyword">>, None, clamp_top_k(top_k))>>
    /\ pc' = "search_memory"
    /\ UNCHANGED <<Config, got, ret>>

SearchMemoryDone ==
    /\ pc = "search_memory"
    /\ \E o \in Outcomes(ToolBodies) :
        /\ got' = Append(got, o)
        /\ sent' = sent \o resend(LastSent, o)
        /\ ret' = except_Exception("Failed to search memory: ",
                                   search_memory_try(receive(LastSent, o)))
    /\ pc' = "done"
    /\ UNCHANGED <<Config, call>>

GetMemories ==
    /\ pc = "idle"
    /\ \E user_id \in Users, group_id \in {None, <<"proj">>}, limit \in LimitInputs :
        LET uid == Or(user_id, defaults.user_id)
        IN  /\ call' = [tool |-> "get_memories", user_id |-> user_id,
                        memory_type |-> <<"episodic_memory">>, group_id |-> group_id,
                        limit |-> limit]
            /\ sent' = <<get_memories(client, uid, <<"episodic_memory">>,
                                              group_id, clamp_limit(limit))>>
    /\ pc' = "get_memories"
    /\ UNCHANGED <<Config, got, ret>>

GetMemoriesDone ==
    /\ pc = "get_memories"
    /\ \E o \in Outcomes(ToolBodies) :
        /\ got' = Append(got, o)
        /\ sent' = sent \o resend(LastSent, o)
        /\ ret' = except_Exception("Failed to get memories: ",
                                   get_memories_try(receive(LastSent, o)))
    /\ pc' = "done"
    /\ UNCHANGED <<Config, call>>

DeleteMemory ==
    /\ pc = "idle"
    /\ \E user_id \in Users, group_id \in {None, <<"proj">>},
          memory_type \in {None, <<"event_log">>} :
        LET uid == Or(user_id, defaults.user_id)
        IN  /\ call' = [tool |-> "delete_memory", user_id |-> user_id,
                        group_id |-> group_id, memory_type |-> memory_type]
            /\ sent' = <<delete_memories(client, uid, group_id, memory_type)>>
    /\ pc' = "delete_memory"
    /\ UNCHANGED <<Config, got, ret>>

DeleteMemoryDone ==
    /\ pc = "delete_memory"
    /\ \E o \in Outcomes(StoreBodies) :
        /\ got' = Append(got, o)
        /\ sent' = sent \o resend(LastSent, o)
        /\ ret' = except_Exception("Failed to delete memory: ",
                                   delete_memory_try(receive(LastSent, o)))
    /\ pc' = "done"
    /\ UNCHANGED <<Config, call>>

\* The host has the tool's answer; the server waits for the next call.
NextCall ==
    /\ pc = "done"
    /\ pc' = "idle"
    /\ call' = [tool |-> "none"]
    /\ sent' = << >>
    /\ got' = << >>
    /\ ret' = NoReturn
    /\ UNCHANGED Config

Next ==
    \/ StoreMemory \/ StoreMemoryMeta \/ StoreMemoryAdd
    \/ SearchMemory \/ SearchMemoryDone
    \/ GetMemories \/ GetMemoriesDone
    \/ DeleteMemory \/ DeleteMemoryDone
    \/ NextCall

Spec == Init /\ [][Next]_vars

(***************************************************************************)
(* The client on its own: constructed with explicit arguments, its         *)
(* operations called directly (as test_mcp.py does).                       *)
(***************************************************************************)
ClientInit ==
    /\ \E key \in {None, << >>, <<"sk-1">>},
          url \in {None, << >>, <<"http://env:8001">>, <<"http://env:8001", "/">>},
          api_key \in {None, <<"ck-2">>},
          base_url \in {None, << >>, <<"http://arg:9000">>, <<"http://arg:9000", "/", "/">>},
          api_version \in {None, <<"v0">>} :
           Start(Environment(key, url, None, None),
                 [api_key |-> api_key, base_url |-> base_url, api_version |-> api_version])
    /\ call = [tool |-> "none"]

ClientSaveConversationMeta ==
    /\ pc = "idle"
    /\ \E group_id \in {<<"proj">>} :
        /\ call' = [tool |-> "client.save_conversation_meta", group_id |-> group_id]
        /\ sent' = <<save_conversation_meta(client, group_id, <<"assistant">>,
                                            <<"MCP Memory Group">>, None)>>
    /\ pc' = "client"
    /\ UNCHANGED <<Config, got, ret>>

ClientAddMemory ==
    /\ pc = "idle"
    /\ \E sender \in {<<"alice">>, <<"test_user">>}, group_id \in {<< >>, <<"proj">>},
          flush \in BOOLEAN :
        /\ call' = [tool |-> "client.add_memory", sender |-> sender,
                    group_id |-> group_id, flush |-> flush]
        /\ sent' = <<add_memory(client, <<"likes Python">>, sender, group_id, << >>,
                                <<"user">>, <<"assistant">>, None, flush)>>
    /\ pc' = "client"
    /\ UNCHANGED <<Config, got, ret>>

ClientSearchMemories ==
    /\ pc = "idle"
    /\ \E group_id \in {None, <<"proj">>}, memory_types \in {None, <<"event_log">>} :
        /\ call' = [tool |-> "client.search_memories", group_id |-> group_id,
                    memory_types |-> memory_types]
        /\ sent' = <<search_memories(client, <<"python">>, <<"alice">>, group_id,
                                     <<"hybrid">>, memory_types, 10)>>
    /\ pc' = "client"
    /\ UNCHANGED <<Config, got, ret>>

ClientGetMemories ==
    /\ pc = "idle"
    /\ \E group_id \in {None, <<"proj">>} :
        /\ call' = [tool |-> "client.get_memories", group_id |-> group_id]
        /\ sent' = <<get_memories(client, <<"alice">>, <<"episodic_memory">>,
                                          group_id, 20)>>
    /\ pc' = "client"
    /\ UNCHANGED <<Config, got, ret>>

ClientDeleteMemories ==
    /\ pc = "idle"
    /\ \E group_id \in {None, <<"proj">>} :
        /\ call' = [tool |-> "client.delete_memories", group_id |-> group_id]
        /\ sent' = <<delete_memories(client, <<"alice">>, group_id, None)>>
    /\ pc' = "client"
    /\ UNCHANGED <<Config, got, ret>>

\* The awaited request ends; the operation returns the decoded body or raises.
ClientReceive ==
    /\ pc = "client"
    /\ \E o \in {TransportError("ConnectError"), Response(404, ErrorBody),
                 Response(200, JDict(<<Pair("status", JStr("ok"))>>))} :
        LET r == receive(LastSent, o)
        IN  /\ got' = Append(got, o)
            /\ sent' = sent \o resend(LastSent, o)
            /\ ret' = IF r.ok THEN Returned(r.val) ELSE Raised(r.exc)
    /\ pc' = "done"
    /\ UNCHANGED <<Config, call>>

ClientNext ==
    \/ ClientSaveConversationMeta \/ ClientAddMemory \/ ClientSearchMemories
    \/ ClientGetMemories \/ ClientDeleteMemories
    \/ ClientReceive
    \/ NextCall

ClientSpec == ClientInit /\ [][ClientNext]_vars

(***************************************************************************)
(* The formatters on their own: each applied to a decoded response.        *)
(***************************************************************************)
FormatInit ==
    /\ Start(Environment(None, None, None, None), NoArgs)
    /\ \/ \E d \in OddBodies : call = [tool |-> "format", data |-> d]
       \/ \E m \in SeqsUpTo(MemEntries, MaxMems) :
             \E sc \in ScoresFor(Len(m)), t \in {Missing, JNum(Len(m))} :
                 call = [tool |-> "format", data |-> Body(JList(m), sc, t)]

Applied(r) == IF r.ok THEN Returned(r.val) ELSE Raised(r.exc)

FormatSearchResults ==
    /\ pc = "idle"
    /\ call' = [tool |-> "_format_search_results", data |-> call.data]
    /\ ret' = Applied(_format_search_results(call.data))
    /\ pc' = "done"
    /\ UNCHANGED <<Config, sent, got>>

FormatGetResults ==
    /\ pc = "idle"
    /\ call' = [tool |-> "_format_get_results", data |-> call.data]
    /\ ret' = Applied(_format_get_results(call.data))
    /\ pc' = "done"
    /\ UNCHANGED <<Config, sent, got>>

FormatNext == FormatSearchResults \/ FormatGetResults

FormatSpec == FormatInit /\ [][FormatNext]_vars

(***************************************************************************)
(* The claims                                                              *)
(***************************************************************************)
Tools == {"store_memory", "search_memory", "get_memories", "delete_memory"}

FailedTo(tool) ==
    CASE tool = "store_memory" -> "Failed to store memory: "
      [] tool = "search_memory" -> "Failed to search memory: "
      [] tool = "get_memories" -> "Failed to get memories: "
      [] tool = "delete_memory" -> "Failed to delete memory: "

NonSuccess(o) == o.kind = "response" /\ ~(200 <= o.status /\ o.status <= 299)

ReturnsFailure(e) ==
    /\ ret.kind = "return"
    /\ ret.val.head = FailedTo(call.tool)
    /\ ret.val.detail = e

StatusError(i) == [type |-> "HTTPStatusError", status |-> got[i].status, url |-> sent[i].url]

\* C1: a call of any of the four tools, whatever the outcome of its requests
\* and whatever the decoded body (also one its formatter fails on), ends by
\* returning one text to the host; no tool call ends by raising.
C1_ToolCallReturnsText ==
    /\ ret.kind /= "raise"
    /\ pc = "done" =>
        /\ call.tool \in Tools
        /\ ret.kind = "return"
        /\ "head" \in DOMAIN ret.val

\* A search whose 2xx body made the formatter raise has ended with the failure text.
C1_Witness ==
    /\ pc = "done"
    /\ call.tool = "search_memory"
    /\ got[1].kind = "response"
    /\ got[1].status = 200
    /\ ReturnsFailure([type |-> "ValueError", what |-> "format"])

\* C2 as stated: a non-2xx response from any endpoint, conversation-meta
\* included, makes the tool return the "Failed to" text with that error.
C2_AnyNonSuccessFails ==
    pc = "done" =>
        \A i \in 1..Len(got) : NonSuccess(got[i]) => ReturnsFailure(StatusError(i))

\* C2 (amended): a non-2xx response from the add-memory, search, get or
\* delete endpoint makes the tool return the "Failed to" text with that
\* error; a non-2xx response from conversation-meta is ignored, store_memory
\* goes on to send add-memory; in neither case does the tool call raise.
C2_NonSuccessFailsExceptMeta ==
    pc = "done" =>
        \A i \in 1..Len(got) :
            NonSuccess(got[i]) =>
                /\ ret.kind = "return"
                /\ IF sent[i].op = "save_conversation_meta"
                   THEN /\ Len(sent) > i
                        /\ sent[i + 1].op = "add_memory"
                        /\ Len(got) > i
                   ELSE ReturnsFailure(StatusError(i))

\* store_memory got 409 for conversation-meta and 500 for add-memory: the text
\* carries the 500.
C2_Witness ==
    /\ pc = "done"
    /\ call.tool = "store_memory"
    /\ Len(got) = 2
    /\ NonSuccess(got[1])
    /\ got[1].status = 409
    /\ NonSuccess(got[2])
    /\ got[2].status = 500
    /\ ReturnsFailure(StatusError(2))

Ops(requests) == [i \in 1..Len(requests) |-> requests[i].op]

\* C3: in store_memory the conversation-meta request is issued first and has
\* ended (well or not) before the add-memory request is issued; add-memory is
\* issued whatever conversation-meta ended with; the returned text is decided
\* by add-memory's outcome alone.
C3_MetaThenAddAlways ==
    /\ pc = "store_memory:meta" =>
        Ops(sent) = <<"save_conversation_meta">> /\ Len(got) = 0
    /\ pc = "store_memory:add" =>
        Ops(sent) = <<"save_conversation_meta", "add_memory">> /\ Len(got) = 1
    /\ (pc = "done" /\ call.tool = "store_memory") =>
        /\ Ops(sent) = <<"save_conversation_meta", "add_memory">>
        /\ Len(got) = 2
        /\ LET add == got[2]
           IN  IF add.kind = "response" /\ add.status \in 200..299
                    /\ add.body.t = "dict"
               THEN ret.kind = "return" /\ ret.val.head = "Memory stored successfully."
               ELSE ret.kind = "return" /\ ret.val.head = "Failed to store memory: "

\* conversation-meta timed out, add-memory was accepted: the memory is
\* reported stored.
C3_Witness ==
    /\ pc = "done"
    /\ call.tool = "store_memory"
    /\ got[1].kind = "error"
    /\ Ops(sent) = <<"save_conversation_meta", "add_memory">>
    /\ ret.val.head = "Memory stored successfully."

\* C4: no request is sent again: search_memory, get_memories and
\* delete_memory send one request, store_memory two (conversation-meta, then
\* add-memory), whatever the requests end with.
C4_NoRetry ==
    /\ \A i, j \in 1..Len(sent) : i /= j => sent[i].op /= sent[j].op
    /\ pc = "done" =>
        /\ Len(got) = Len(sent)
        /\ Ops(sent) = CASE call.tool = "store_memory" ->
                                <<"save_conversation_meta", "add_memory">>
                         [] call.tool = "search_memory" -> <<"search_memories">>
                         [] call.tool = "get_memories" -> <<"get_memories">>
                         [] call.tool = "delete_memory" -> <<"delete_memories">>

\* A search that timed out has sent its one request.
C4_Witness ==
    /\ pc = "done"
    /\ call.tool = "search_memory"
    /\ got = <<TransportError("ReadTimeout")>>
    /\ Len(sent) = 1

Fields(req) == IF "json" \in DOMAIN req THEN req.json ELSE req.params

Searching == call.tool = "search_memory" /\ Len(sent) >= 1
Getting == call.tool = "get_memories" /\ Len(sent) >= 1

\* C5: search_memory forwards no top_k above 20 and get_memories no limit
\* above 50; a value at or below the cap is forwarded as given; clamping a
\* clamped value changes nothing.
C5_ClampedAbove ==
    /\ Searching =>
        LET f == Fields(sent[1]).top_k
        IN  /\ f <= 20
            /\ call.top_k <= 20 => f = call.top_k
            /\ clamp_top_k(f) = f
    /\ Getting =>
        LET f == Fields(sent[1]).limit
        IN  /\ f <= 50
            /\ call.limit <= 50 => f = call.limit
            /\ clamp_limit(f) = f

\* A search asked for more than 20 results has forwarded 20.
C5_Witness ==
    /\ Searching
    /\ call.top_k > 20
    /\ Fields(sent[1]).top_k = 20

\* C6: the forwarded top_k is within 1..20 and the forwarded limit within
\* 1..50, also for zero and negative arguments.
C6_ForwardedWithinRange ==
    /\ Searching => Fields(sent[1]).top_k \in 1..20
    /\ Getting => Fields(sent[1]).limit \in 1..50

\* u without its trailing "/"s
WithoutTrailingSlashes(u) ==
    LET n == CHOOSE n \in 0..Len(u) :
                 /\ n = 0 \/ u[n] /= "/"
                 /\ \A i \in (n + 1)..Len(u) : u[i] = "/"
    IN  SubSeq(u, 1, n)

Given(x) == x /= None /\ x /= << >>

\* C7: the base URL is the explicit base_url when one is given, else
\* EVERMEM_API_URL when set, else the cloud default when an API key (explicit
\* or EVERMEM_API_KEY) is present, else the local default (a trailing "/" of a
\* given URL dropped; an empty value counts as not given); no operation
\* changes it.
C7_BaseUrlPrecedence ==
    client.base_url =
        IF Given(ctor.base_url) THEN WithoutTrailingSlashes(ctor.base_url)
        ELSE IF Given(env.EVERMEM_API_URL) THEN WithoutTrailingSlashes(env.EVERMEM_API_URL)
        ELSE IF Given(ctor.api_key) \/ Given(env.EVERMEM_API_KEY)
             THEN <<"https://api.evermind.ai">>
        ELSE <<"http://localhost:1995">>

\* Constructed with an explicit base_url while EVERMEM_API_URL is set too, and
\* an operation has run since.
C7_Witness ==
    /\ pc = "done"
    /\ Given(ctor.base_url)
    /\ Given(env.EVERMEM_API_URL)
    /\ client.base_url = <<"http://arg:9000">>

SearchFields ==
    [user_id |-> <<"alice">>, query |-> <<"python">>, retrieve_method |-> <<"hybrid">>,
     top_k |-> 10]
    @@ (IF Given(call.group_id) THEN [group_id |-> call.group_id] ELSE << >>)
    @@ (IF Given(call.memory_types) THEN [memory_types |-> call.memory_types] ELSE << >>)

\* C8: search_memories sends POST with the fields as JSON body exactly when an
\* API key is configured and GET with the same fields as query parameters
\* exactly when none is, both to <memories>/search, whatever the base URL; the
\* POST carries Authorization: Bearer <key>, the GET no Authorization.
C8_SearchTransportByKey ==
    (call.tool = "client.search_memories" /\ Len(sent) >= 1) =>
        LET r == sent[1]
        IN  /\ r.url = client.memories_url \o <<"/search">>
            /\ r.url[Len(r.url) - 1] = "/memories"
            /\ IF Given(client.api_key)
               THEN /\ r.method = "POST"
                    /\ "json" \in DOMAIN r
                    /\ "params" \notin DOMAIN r
                    /\ r.json = SearchFields
                    /\ "Authorization" \in DOMAIN r.headers
                    /\ r.headers.Authorization = <<"Bearer ">> \o client.api_key
               ELSE /\ r.method = "GET"
                    /\ "params" \in DOMAIN r
                    /\ "json" \notin DOMAIN r
                    /\ r.params = SearchFields
                    /\ "Authorization" \notin DOMAIN r.headers

\* A client with an API key and an explicit base URL that is not the cloud's
\* has sent its search as POST.
C8_Witness ==
    /\ call.tool = "client.search_memories"
    /\ Len(sent) = 1
    /\ Given(client.api_key)
    /\ client.base_url = <<"http://arg:9000">>
    /\ sent[1].method = "POST"

\* The `memories` of a response body, where it has one
HasMemoriesList(data) ==
    /\ data.t = "dict"
    /\ dict_has(data, "result")
    /\ dict_val(data, "result").t = "dict"
    /\ dict_has(dict_val(data, "result"), "memories")
    /\ dict_val(dict_val(data, "result"), "memories").t = "list"

MemoriesOf(data) == dict_val(dict_val(data, "result"), "memories").l

\* C9: the search formatter raises for no memories list and no scores
\* structure (missing, shorter, of another shape, of wrong type at any level).
C9_SearchFormatterNeverRaises ==
    (pc = "done" /\ call.tool = "_format_search_results" /\ HasMemoriesList(call.data)) =>
        ret.kind = "return"

RECURSIVE Flatten(_)
Flatten(ss) == IF ss = << >> THEN << >> ELSE Head(ss) \o Flatten(Tail(ss))

IsGrouped(mem) ==
    /\ mem.t = "dict"
    /\ mem.d /= << >>
    /\ \A k \in 1..Len(mem.d) : mem.d[k][2].t = "list"

\* What an entry is to be rendered as: a label per group and a memory line per
\* record of the group, or one memory line
EntryShape(mem) ==
    IF IsGrouped(mem)
    THEN Flatten([k \in 1..Len(mem.d) |->
                    <<[kind |-> "group", group_id |-> mem.d[k][1]]>>
                    \o [j \in 1..Len(mem.d[k][2].l) |-> [kind |-> "memory"]]])
    ELSE <<[kind |-> "memory"]>>

LineShape(line) == IF line.kind = "group" THEN line ELSE [kind |-> "memory"]

\* C10: both formatters render a grouped entry as one label per key followed
\* by one memory line per record of that key, and a flat record as exactly one
\* memory line and no label, also when its fields are all scalars or one of
\* them is a list.
C10_EntriesRenderedByShape ==
    (/\ pc = "done"
     /\ call.tool \in {"_format_search_results", "_format_get_results"}
     /\ HasMemoriesList(call.data)
     /\ ret.kind = "return"
     /\ "lines" \in DOMAIN ret.val) =>
        [i \in 1..Len(ret.val.lines) |-> LineShape(ret.val.lines[i])]
            = Flatten([i \in 1..Len(MemoriesOf(call.data)) |->
                          EntryShape(MemoriesOf(call.data)[i])])

\* C11: add_memory called without a group_id (absent, which is the default
\* "", or empty) sends the payload group_id "{sender}_group"; called with a
\* non-empty group_id it sends that group_id.
C11_GroupIdDerivedFromSender ==
    (call.tool = "client.add_memory" /\ Len(sent) >= 1) =>
        sent[1].json.group_id =
            IF call.group_id = << >>
            THEN call.sender \o <<"_group">>
            ELSE call.group_id

\* add_memory("likes Python", "alice") has sent group_id "alice_group".
C11_Witness ==
    /\ call.tool = "client.add_memory"
    /\ Len(sent) = 1
    /\ call.sender = <<"alice">>
    /\ call.group_id = << >>
    /\ sent[1].json.group_id = <<"alice", "_group">>

\* C12: in every store_memory call the group_id sent in the conversation-meta
\* request equals the group_id sent in the add-memory payload, whatever the
\* group_id argument and the configured default group id are.
C12_MetaGroupIsStoredGroup ==
    (call.tool = "store_memory" /\ Len(sent) >= 2) =>
        /\ sent[1].op = "save_conversation_meta"
        /\ sent[2].op = "add_memory"
        /\ sent[1].json.group_id = sent[2].json.group_id

\* What the remote service did with a request that ended with outcome o: it
\* carried the request out when it answered 2xx, and when the client's timeout
\* expired after the processing.
AnsweredSuccess(o) == o.kind = "response" /\ is_success(o.status)
RemoteAccepted(o) ==
    \/ AnsweredSuccess(o)
    \/ o.kind = "error" /\ "processed" \in DOMAIN o

StoreDone == pc = "done" /\ call.tool = "store_memory" /\ Len(got) = 2
StoreFailedText == ret.kind = "return" /\ ret.val.head = "Failed to store memory: "
StoreSuccessText == ret.kind = "return" /\ ret.val.head = "Memory stored successfully."

\* C13 as stated: a "Failed to store memory" text means the remote service did
\* not accept the add-memory request, and an add-memory request accepted with
\* a 2xx status gives the "Memory stored successfully." text, for every body
\* shape and for timeouts after the remote side has processed the request.
C13_FailedMeansNotStored ==
    StoreDone =>
        /\ StoreFailedText => ~RemoteAccepted(got[2])
        /\ AnsweredSuccess(got[2]) => StoreSuccessText

\* C13, amended: an add-memory request answered 2xx with a JSON object gives
\* the "Memory stored successfully." text carrying the object's status (or
\* "unknown"); a "Failed to store memory" text means the add-memory request
\* ended with a transport error or timeout, a non-2xx status, or a 2xx answer
\* whose body is not a JSON object, and its detail is that error.  In the
\* timeout and the 2xx cases the remote service may have stored the message.
C13_FailedNamesAddMemoryError ==
    StoreDone =>
        LET add == got[2]
        IN  /\ (AnsweredSuccess(add) /\ add.body.t = "dict") =>
                /\ StoreSuccessText
                /\ ret.val.status = IF dict_has(add.body, "status")
                                     THEN dict_val(add.body, "status")
                                     ELSE JStr("unknown")
            /\ StoreFailedText =>
                \/ add.kind = "error" /\ ret.val.detail.type = add.exc
                \/ NonSuccess(add) /\ ret.val.detail = StatusError(2)
                \/ /\ AnsweredSuccess(add)
                   /\ add.body = NotJson
                   /\ ret.val.detail.type = "JSONDecodeError"
                \/ /\ AnsweredSuccess(add)
                   /\ add.body.t \in {"list", "null"}
                   /\ ret.val.detail.type = "AttributeError"
            /\ (StoreFailedText /\ RemoteAccepted(add)) =>
                \/ add = ReadTimeoutAfterProcessing
                \/ AnsweredSuccess(add) /\ add.body.t /= "dict"

\* add-memory was answered 201 with a JSON list: the message is stored and
\* the tool reports a failure.
C13_Witness ==
    /\ StoreDone
    /\ got[2] = Response(201, JList(<< >>))
    /\ StoreFailedText
    /\ RemoteAccepted(got[2])

\* The memory lines among the rendered lines (group labels are not counted)
MemoryLines(lines) == {i \in 1..Len(lines) : lines[i].kind = "memory"}

\* C14: for every non-empty search response the number in the header "Found N
\* relevant memories:" is the number of memory lines rendered below it, also
\* when the response has no total_count and when memories are grouped
\* (total_count is a whole number, kept as it is given).
C14_HeaderCountsMemoryLines ==
    (/\ pc = "done"
     /\ call.tool = "_format_search_results"
     /\ ret.kind = "return"
     /\ ret.val.head = "Found {total} relevant memories:") =>
        ret.val.total = JNum(Cardinality(MemoryLines(ret.val.lines)))

=============================================================================
